---- MODULE Spec2Model ----
(***************************************************************************)
(* Model of the webmercator_tiles crate (src/src/lib.rs): the four pure    *)
(* functions lonlat2tile, tile2lonlat, zoom_in and zoom_out, and a caller  *)
(* that composes them.                                                     *)
(*                                                                         *)
(* u32 values exceed the integers of the model checker, and f64 values are *)
(* not integers at all, so both are built on unbounded naturals held as    *)
(* limb sequences (least significant limb first, no leading zero). A u32 is *)
(* such a natural below 2^32; an f64 is a sign, a natural and a binary     *)
(* exponent, rounded as IEEE-754 binary64 rounds (nearest, ties to even).  *)
(***************************************************************************)
EXTENDS Integers, Sequences, FiniteSets, TLC

(***************************************************************************)
(* Naturals of any size: sequences of limbs in 0..Base-1, least            *)
(* significant limb first, no leading zero limb (zero is the empty         *)
(* sequence).  Base is small enough for a product of two limbs plus a      *)
(* carry to stay an integer of the model checker: a limb has one bit less   *)
(* than half of its 32.                                                    *)
(***************************************************************************)
LimbBits == 32 \div 2 - 1
Base == 2^LimbBits

Zero == <<>>
One == <<1>>

Max2(i, j) == IF i >= j THEN i ELSE j
Min2(i, j) == IF i <= j THEN i ELSE j

RECURSIVE Norm(_)
Norm(s) ==
    IF s = <<>> THEN <<>>
    ELSE IF s[Len(s)] # 0 THEN s
    ELSE Norm(SubSeq(s, 1, Len(s) - 1))

RECURSIVE BigOfInt(_)
BigOfInt(n) == IF n = 0 THEN <<>> ELSE <<n % Base>> \o BigOfInt(n \div Base)

Limb(a, i) == IF i >= 1 /\ i <= Len(a) THEN a[i] ELSE 0

RECURSIVE AddFrom(_, _, _, _)
AddFrom(a, b, i, carry) ==
    IF i > Len(a) /\ i > Len(b)
    THEN (IF carry = 0 THEN <<>> ELSE <<carry>>)
    ELSE LET t == Limb(a, i) + Limb(b, i) + carry
         IN  <<t % Base>> \o AddFrom(a, b, i + 1, t \div Base)

BigAdd(a, b) == AddFrom(a, b, 1, 0)

RECURSIVE SubFrom(_, _, _, _)
SubFrom(a, b, i, borrow) ==
    IF i > Len(a) THEN <<>>
    ELSE LET t == Limb(a, i) - Limb(b, i) - borrow
         IN  <<(t + Base) % Base>> \o SubFrom(a, b, i + 1, IF t < 0 THEN 1 ELSE 0)

\* a - b, for a >= b
BigSub(a, b) == Norm(SubFrom(a, b, 1, 0))

RECURSIVE BigLtFrom(_, _, _)
BigLtFrom(a, b, i) ==
    IF i = 0 THEN FALSE
    ELSE IF a[i] # b[i] THEN a[i] < b[i]
    ELSE BigLtFrom(a, b, i - 1)

BigLt(a, b) ==
    IF Len(a) # Len(b) THEN Len(a) < Len(b) ELSE BigLtFrom(a, b, Len(a))

BigLe(a, b) == a = b \/ BigLt(a, b)

\* a * k, for 0 <= k <= Base
RECURSIVE MulSmallFrom(_, _, _, _)
MulSmallFrom(a, k, i, carry) ==
    IF i > Len(a) THEN (IF carry = 0 THEN <<>> ELSE <<carry>>)
    ELSE LET t == a[i] * k + carry
         IN  <<t % Base>> \o MulSmallFrom(a, k, i + 1, t \div Base)

BigMulSmall(a, k) == IF k = 0 THEN <<>> ELSE Norm(MulSmallFrom(a, k, 1, 0))

\* [q, r] with a = q * k + r and 0 <= r < k, for 1 <= k <= Base; i runs from
\* the top limb down.
RECURSIVE DivSmallFrom(_, _, _, _, _)
DivSmallFrom(a, k, i, q, r) ==
    IF i = 0 THEN [q |-> Norm(q), r |-> r]
    ELSE LET t == r * Base + a[i]
         IN  DivSmallFrom(a, k, i - 1, <<t \div k>> \o q, t % k)

BigDivSmall(a, k) == DivSmallFrom(a, k, Len(a), <<>>, 0)

ShlLimbs(a, n) == IF a = <<>> \/ n <= 0 THEN a ELSE [i \in 1..n |-> 0] \o a

ShrLimbs(a, n) == IF n <= 0 THEN a ELSE SubSeq(a, n + 1, Len(a))

\* a * 2^k
Shl(a, k) ==
    IF k <= 0 THEN a
    ELSE ShlLimbs(BigMulSmall(a, 2^(k % LimbBits)), k \div LimbBits)

\* a \div 2^k
Shr(a, k) ==
    IF k <= 0 THEN a
    ELSE BigDivSmall(ShrLimbs(a, k \div LimbBits), 2^(k % LimbBits)).q

\* a % 2^k
LowBits(a, k) ==
    IF k <= 0 THEN <<>>
    ELSE IF k \div LimbBits >= Len(a) THEN a
    ELSE Norm(SubSeq(a, 1, k \div LimbBits)
              \o <<a[k \div LimbBits + 1] % 2^(k % LimbBits)>>)

\* Bit i of a, counted from 1 at the least significant end.
Bit(a, i) ==
    IF i < 1 THEN 0
    ELSE (Limb(a, (i - 1) \div LimbBits + 1) \div 2^((i - 1) % LimbBits)) % 2

\* The number of bits of a limb n: the least k with n < 2^k.
LimbLen(n) == CHOOSE k \in 0..LimbBits : n < 2^k /\ (k = 0 \/ n >= 2^(k - 1))

\* The number of significant bits of a (0 for zero).
BitLen(a) == IF a = <<>> THEN 0 ELSE LimbBits * (Len(a) - 1) + LimbLen(a[Len(a)])

RECURSIVE MulFrom(_, _, _)
MulFrom(a, b, i) ==
    IF i > Len(b) THEN <<>>
    ELSE BigAdd(BigMulSmall(a, b[i]), ShlLimbs(MulFrom(a, b, i + 1), 1))

BigMul(a, b) == IF a = <<>> \/ b = <<>> THEN <<>> ELSE MulFrom(a, b, 1)

\* The greatest d, built from bit k down on top of d0, with d * b <= r.
RECURSIVE QuotDigit(_, _, _, _)
QuotDigit(r, b, k, d0) ==
    IF k < 0 THEN d0
    ELSE IF BigLe(BigMulSmall(b, d0 + 2^k), r)
    THEN QuotDigit(r, b, k - 1, d0 + 2^k)
    ELSE QuotDigit(r, b, k - 1, d0)

\* Long division, a limb of the quotient at a time from the top limb of a
\* down: [q, r] with a = q * b + r and r < b, for b # 0.
RECURSIVE BigDivStep(_, _, _, _, _)
BigDivStep(a, b, i, q, r) ==
    IF i = 0 THEN [q |-> Norm(q), r |-> r]
    ELSE LET r2 == Norm(<<a[i]>> \o r)
             d == QuotDigit(r2, b, LimbBits - 1, 0)
         IN  BigDivStep(a, b, i - 1, <<d>> \o q, BigSub(r2, BigMulSmall(b, d)))

BigDivMod(a, b) ==
    IF Len(b) = 1
    THEN LET d == BigDivSmall(a, b[1]) IN [q |-> d.q, r |-> BigOfInt(d.r)]
    ELSE BigDivStep(a, b, Len(a), <<>>, <<>>)

(***************************************************************************)
(* u32: a natural below 2^32.  An operation that leaves the range panics   *)
(* in a build with overflow checks (the debug profile) and wraps modulo    *)
(* 2^32 in a build without them (the release profile).                     *)
(***************************************************************************)
U32Bits == 32

U32Max == BigSub(Shl(One, U32Bits), One)

U32Overflows(v) == BitLen(v) > U32Bits

U32Wrap(v) == LowBits(v, U32Bits)

\* x / 2 rounded up instead of down: what C7 rules out.
U32Div2Up(x) == Shr(BigAdd(x, One), 1)

U32Div2(x) == Shr(x, 1)

\* zoom_in with the second and third tile exchanged (column-major order): what
\* C3 rules out.
zoom_in_column_major(x, y, checked) ==
    LET x2 == U32Wrap(Shl(x, 1))
        y2 == U32Wrap(Shl(y, 1))
        x1 == BigAdd(x2, One)
        y1 == BigAdd(y2, One)
    IN  [panic |-> FALSE,
         val |-> << <<x2, y2>>, <<x2, y1>>, <<x1, y2>>, <<x1, y1>> >>]

\* zoom_in with `x2 + 1` lost in the second tile: what C10 rules out.
zoom_in_repeated(x, y, checked) ==
    LET x2 == U32Wrap(Shl(x, 1))
        y2 == U32Wrap(Shl(y, 1))
        x1 == BigAdd(x2, One)
        y1 == BigAdd(y2, One)
    IN  [panic |-> FALSE,
         val |-> << <<x2, y2>>, <<x2, y2>>, <<x2, y1>>, <<x1, y1>> >>]

(***************************************************************************)
(* lib.rs:59-63.  `2 * x` and `2 * y` are the only operations that can     *)
(* leave the u32 range (2 * x wraps to an even number, so `+ 1` cannot).   *)
(* With overflow checks the call panics; without them the products wrap.   *)
(***************************************************************************)
zoom_in(x, y, checked) ==
    LET x2 == Shl(x, 1)
        y2 == Shl(y, 1)
    IN  IF checked /\ (U32Overflows(x2) \/ U32Overflows(y2))
        THEN [panic |-> TRUE, val |-> <<>>]
        ELSE LET wx == U32Wrap(x2)
                 wy == U32Wrap(y2)
                 x1 == BigAdd(wx, One)
                 y1 == BigAdd(wy, One)
             IN  [panic |-> FALSE,
                  val |-> << <<wx, wy>>, <<x1, wy>>, <<wx, y1>>, <<x1, y1>> >>]

\* zoom_out with x and y exchanged: what C1 rules out.
zoom_out_transposed(x, y) == <<U32Div2(y), U32Div2(x)>>

(***************************************************************************)
(* lib.rs:74-76                                                            *)
(***************************************************************************)
zoom_out(x, y) == <<U32Div2(x), U32Div2(y)>>

(***************************************************************************)
(* f64: IEEE-754 binary64.  A finite value is (-1)^s * m * 2^e with m odd  *)
(* (or m = 0, e = 0), so that equal values are equal records.              *)
(***************************************************************************)
F64Precision == 53
F64MinExp == -1074
F64MaxExp == 1023

NaN == [k |-> "nan", s |-> 0, m |-> <<>>, e |-> 0]
Inf(s) == [k |-> "inf", s |-> s, m |-> <<>>, e |-> 0]

\* The number of zero bits below the lowest one bit of m, for m # 0.
RECURSIVE TrailingZeros(_)
TrailingZeros(m) ==
    IF m[1] = 0 THEN LimbBits + TrailingZeros(Tail(m))
    ELSE CHOOSE k \in 0..LimbBits - 1 : m[1] % 2^k = 0 /\ m[1] % 2^(k + 1) # 0

Fin(s, m, e) ==
    IF m = <<>> THEN [k |-> "fin", s |-> s, m |-> <<>>, e |-> 0]
    ELSE LET tz == TrailingZeros(m)
         IN  [k |-> "fin", s |-> s, m |-> Shr(m, tz), e |-> e + tz]

IsZero(a) == a.k = "fin" /\ a.m = <<>>

\* The f64 nearest to (-1)^s * m * 2^e, ties to even.
RoundF64(s, m, e) ==
    LET len == BitLen(m)
        q == Max2(e + len - F64Precision, F64MinExp)
    IN  IF m = <<>> THEN Fin(s, <<>>, 0)
        ELSE IF q <= e
        THEN IF e + len - 1 > F64MaxExp THEN Inf(s) ELSE Fin(s, m, e)
        ELSE LET d == q - e
                 keep == Shr(m, d)
                 half == Bit(m, d) = 1
                 sticky == LowBits(m, d - 1) # <<>>
                 odd == Bit(keep, 1) = 1
                 r == IF half /\ (sticky \/ odd) THEN BigAdd(keep, One) ELSE keep
             IN  IF q + BitLen(r) - 1 > F64MaxExp THEN Inf(s) ELSE Fin(s, r, q)

F64Neg(a) == [a EXCEPT !.s = 1 - a.s]

\* a + b for finite nonzero a, b, rounded once.
F64AddFin(a, b) ==
    LET emin == IF a.e <= b.e THEN a.e ELSE b.e
        am == Shl(a.m, a.e - emin)
        bm == Shl(b.m, b.e - emin)
    IN  IF a.s = b.s THEN RoundF64(a.s, BigAdd(am, bm), emin)
        ELSE IF am = bm THEN Fin(0, <<>>, 0)
        ELSE IF BigLt(bm, am) THEN RoundF64(a.s, BigSub(am, bm), emin)
        ELSE RoundF64(b.s, BigSub(bm, am), emin)

\* An operand more than F64Guard bits below the other one only decides the
\* direction of rounding: any value of its sign that far below does the same.
F64Guard == F64Precision + 11

F64Top(a) == a.e + BitLen(a.m)

F64Add(a, b) ==
    IF a.k = "nan" \/ b.k = "nan" THEN NaN
    ELSE IF a.k = "inf" THEN (IF b.k = "inf" /\ b.s # a.s THEN NaN ELSE a)
    ELSE IF b.k = "inf" THEN b
    ELSE IF IsZero(a) /\ IsZero(b) THEN Fin(IF a.s = 1 /\ b.s = 1 THEN 1 ELSE 0, <<>>, 0)
    ELSE IF IsZero(a) THEN b
    ELSE IF IsZero(b) THEN a
    ELSE IF F64Top(a) - F64Top(b) > F64Guard
    THEN F64AddFin(a, Fin(b.s, One, F64Top(a) - F64Guard - 2))
    ELSE IF F64Top(b) - F64Top(a) > F64Guard
    THEN F64AddFin(Fin(a.s, One, F64Top(b) - F64Guard - 2), b)
    ELSE F64AddFin(a, b)

F64Sub(a, b) == F64Add(a, F64Neg(b))

Xor(s, t) == IF s = t THEN 0 ELSE 1

F64Mul(a, b) ==
    IF a.k = "nan" \/ b.k = "nan" THEN NaN
    ELSE IF a.k = "inf" \/ b.k = "inf"
    THEN (IF IsZero(a) \/ IsZero(b) THEN NaN ELSE Inf(Xor(a.s, b.s)))
    ELSE RoundF64(Xor(a.s, b.s), BigMul(a.m, b.m), a.e + b.e)

F64Div(a, b) ==
    IF a.k = "nan" \/ b.k = "nan" THEN NaN
    ELSE IF a.k = "inf" THEN (IF b.k = "inf" THEN NaN ELSE Inf(Xor(a.s, b.s)))
    ELSE IF b.k = "inf" THEN Fin(Xor(a.s, b.s), <<>>, 0)
    ELSE IF IsZero(b) THEN (IF IsZero(a) THEN NaN ELSE Inf(Xor(a.s, b.s)))
    ELSE IF IsZero(a) THEN Fin(Xor(a.s, b.s), <<>>, 0)
    ELSE LET k == Max2(0, BitLen(b.m) + F64Precision + 3 - BitLen(a.m))
             d == BigDivMod(Shl(a.m, k), b.m)
         IN  IF d.r = <<>>
             THEN RoundF64(Xor(a.s, b.s), d.q, a.e - b.e - k)
             ELSE RoundF64(Xor(a.s, b.s), BigAdd(Shl(d.q, 1), One), a.e - b.e - k - 1)

\* A cast that wraps modulo 2^32 instead of saturating: what C6 rules out.
F64AsU32Wrapping(v) ==
    IF v.k # "fin" \/ v.s = 1 THEN <<>>
    ELSE IF v.e >= 0 THEN U32Wrap(Shl(v.m, v.e))
    ELSE U32Wrap(Shr(v.m, 0 - v.e))

\* A cast that rounds to the nearest integer instead of toward zero: what C9
\* rules out.
F64AsU32Rounding(v) ==
    LET w == F64Add(v, Fin(0, One, -1))
    IN  IF w.k = "nan" THEN <<>>
        ELSE IF w.s = 1 THEN <<>>
        ELSE IF w.k = "inf" THEN U32Max
        ELSE IF w.e + BitLen(w.m) > U32Bits THEN U32Max
        ELSE IF w.e >= 0 THEN Shl(w.m, w.e)
        ELSE Shr(w.m, 0 - w.e)

\* `v as u32` (lib.rs:23-24): toward zero, saturating; NaN gives 0.
F64AsU32(v) ==
    IF v.k = "nan" THEN <<>>
    ELSE IF v.s = 1 THEN <<>>
    ELSE IF v.k = "inf" THEN U32Max
    ELSE IF v.e + BitLen(v.m) > U32Bits THEN U32Max
    ELSE IF v.e >= 0 THEN Shl(v.m, v.e)
    ELSE Shr(v.m, 0 - v.e)

\* `x as f64` (lib.rs:37-38): exact, a u32 has at most 32 significant bits.
U32AsF64(x) == RoundF64(0, x, 0)

\* An f64 written as sign, high 26 and low 27 bits of the significand, exponent.
F64Lit(s, hi, lo, e) == Fin(s, BigAdd(Shl(BigOfInt(hi), 27), BigOfInt(lo)), e)

F64OfNat(n) == Fin(0, BigOfInt(n), 0)

\* 2f64.powf(zoom as f64) (lib.rs:22, 36): exactly 2^zoom for zoom in 0..255.
Pow2(zoom) == Fin(0, One, zoom)

(***************************************************************************)
(* std::f64::consts::PI (lib.rs:11): 0x400921FB54442D18.                   *)
(***************************************************************************)
PI == F64Lit(0, 6588397, 42501539, -48)

F64One == F64OfNat(1)
F64Two == F64OfNat(2)

\* f64::to_radians (lib.rs:21): self * RADS_PER_DEG, a constant PI / 180.0
RADS_PER_DEG == F64Div(PI, F64OfNat(180))

to_radians(v) == F64Mul(v, RADS_PER_DEG)

\* f64::to_degrees (lib.rs:38): self * (180.0 / PI)
DEGS_PER_RAD == F64Div(F64OfNat(180), PI)

to_degrees(v) == F64Mul(v, DEGS_PER_RAD)

(***************************************************************************)
(* tan, cos, ln, sinh and atan are the platform's libm.  Their values at   *)
(* infinities, NaN and zero are fixed by IEEE-754 and C; elsewhere they    *)
(* are tabulated as binary64 glibc returns them, on the arguments that the *)
(* latitudes and tile rows of this model lead to.                          *)
(***************************************************************************)
TanTable == {
    <<F64Lit(1, 6588397, 42501539, -49), F64Lit(1, 60838607, 70372789, 1)>>,  \* tan(-1.5707963267948966) = -1.633123935319537e+16
    <<F64Lit(1, 52707178, 71572123, -52), F64Lit(1, 29036751, 103272349, -12)>>,  \* tan(-1.5707963267938456) = -951476281980.9758
    <<F64Lit(1, 6226118, 12872791, -49), F64Lit(1, 6054865, 61758671, -46)>>,  \* tan(-1.4844222297453324) = -11.548739357257759
    <<F64Lit(1, 3113059, 6400873, -48), F64Lit(1, 48438923, 81869627, -49)>>,  \* tan(-1.4844222296191312) = -11.548739340299667
    <<F64Lit(1, 49808944, 101845609, -52), F64Lit(1, 48438923, 72323087, -49)>>,  \* tan(-1.4844222294929301) = -11.548739323341605
    <<F64Lit(1, 24904463, 128366303, -51), F64Lit(1, 48438640, 78344505, -49)>>,  \* tan(-1.4844217274429492) = -11.548671861579907
    <<F64Lit(1, 23182764, 111574041, -51), F64Lit(1, 21927703, 74566513, -49)>>,  \* tan(-1.3818004626805416) = -5.227971924677805
    <<F64Lit(1, 38952514, 49222495, -52), F64Lit(1, 38609388, 102619169, -51)>>,  \* tan(-1.1608753909688045) = -2.301298902307295
    <<F64Lit(1, 11999637, 107248509, -51), F64Lit(1, 58295521, 55715637, -53)>>,  \* tan(-0.7152341484465397) = -0.8686709614860094
    <<F64Lit(0, 11999637, 107248509, -51), F64Lit(0, 58295521, 55715637, -53)>>,  \* tan(0.7152341484465397) = 0.8686709614860094
    <<F64Lit(0, 53246116, 5009451, -53), F64Lit(0, 34097744, 55642641, -52)>>,  \* tan(0.7934289580184716) = 1.0161919717362518
    <<F64Lit(0, 38952514, 49222495, -52), F64Lit(0, 38609388, 102619169, -51)>>,  \* tan(1.1608753909688045) = 2.301298902307295
    <<F64Lit(0, 23182764, 111574041, -51), F64Lit(0, 21927703, 74566513, -49)>>,  \* tan(1.3818004626805416) = 5.227971924677805
    <<F64Lit(0, 24904463, 128366303, -51), F64Lit(0, 48438640, 78344505, -49)>>,  \* tan(1.4844217274429492) = 11.548671861579907
    <<F64Lit(0, 12452236, 25743993, -50), F64Lit(0, 3027432, 97981527, -45)>>,  \* tan(1.4844222297439211) = 11.548739357068115
    <<F64Lit(0, 49808944, 102982325, -52), F64Lit(0, 24219461, 112816931, -48)>>,  \* tan(1.4844222297453318) = 11.54873935725767
    <<F64Lit(0, 6226118, 12872791, -49), F64Lit(0, 6054865, 61758671, -46)>>,  \* tan(1.4844222297453324) = 11.548739357257759
    <<F64Lit(0, 6588397, 42501539, -49), F64Lit(0, 60838607, 70372789, 1)>>,  \* tan(1.5707963267948966) = 1.633123935319537e+16
    <<F64Lit(0, 35303054, 76960823, -41), F64Lit(1, 57556295, 93429669, -54)>>  \* tan(2154.727451989918) = -0.42882781994421243
}

CosTable == {
    <<F64Lit(1, 6588397, 42501539, -49), F64Lit(0, 37012678, 51665927, -106)>>,  \* cos(-1.5707963267948966) = 6.123233995736766e-17
    <<F64Lit(1, 52707178, 71572123, -52), F64Lit(0, 38774995, 10013777, -92)>>,  \* cos(-1.5707963267938456) = 1.0509983474501305e-12
    <<F64Lit(1, 6226118, 12872791, -49), F64Lit(0, 46314102, 65051187, -56)>>,  \* cos(-1.4844222297453324) = 0.08626673833405434
    <<F64Lit(1, 3113059, 6400873, -48), F64Lit(0, 23157051, 37055523, -55)>>,  \* cos(-1.4844222296191312) = 0.08626673845978514
    <<F64Lit(1, 49808944, 101845609, -52), F64Lit(0, 23157051, 41585445, -55)>>,  \* cos(-1.4844222294929301) = 0.08626673858551573
    <<F64Lit(1, 24904463, 128366303, -51), F64Lit(0, 11578592, 105726221, -54)>>,  \* cos(-1.4844217274429492) = 0.0862672387638817
    <<F64Lit(1, 23182764, 111574041, -51), F64Lit(0, 25215851, 72817705, -54)>>,  \* cos(-1.3818004626805416) = 0.18787273423771694
    <<F64Lit(1, 38952514, 49222495, -52), F64Lit(0, 53490705, 117987289, -54)>>,  \* cos(-1.1608753909688045) = 0.39853681533838664
    <<F64Lit(1, 11999637, 107248509, -51), F64Lit(0, 50663146, 32252017, -53)>>,  \* cos(-0.7152341484465397) = 0.7549397087141313
    <<F64Lit(0, 11999637, 107248509, -51), F64Lit(0, 50663146, 32252017, -53)>>,  \* cos(0.7152341484465397) = 0.7549397087141313
    <<F64Lit(0, 53246116, 5009451, -53), F64Lit(0, 47070520, 45595663, -53)>>,  \* cos(0.7934289580184716) = 0.7014054110603655
    <<F64Lit(0, 38952514, 49222495, -52), F64Lit(0, 53490705, 117987289, -54)>>,  \* cos(1.1608753909688045) = 0.39853681533838664
    <<F64Lit(0, 23182764, 111574041, -51), F64Lit(0, 25215851, 72817705, -54)>>,  \* cos(1.3818004626805416) = 0.18787273423771694
    <<F64Lit(0, 24904463, 128366303, -51), F64Lit(0, 11578592, 105726221, -54)>>,  \* cos(1.4844217274429492) = 0.0862672387638817
    <<F64Lit(0, 12452236, 25743993, -50), F64Lit(0, 5789262, 108807359, -53)>>,  \* cos(1.4844222297439211) = 0.08626673833546039
    <<F64Lit(0, 49808944, 102982325, -52), F64Lit(0, 46314102, 65051235, -56)>>,  \* cos(1.4844222297453318) = 0.086266738334055
    <<F64Lit(0, 6226118, 12872791, -49), F64Lit(0, 46314102, 65051187, -56)>>,  \* cos(1.4844222297453324) = 0.08626673833405434
    <<F64Lit(0, 6588397, 42501539, -49), F64Lit(0, 37012678, 51665927, -106)>>,  \* cos(1.5707963267948966) = 6.123233995736766e-17
    <<F64Lit(0, 35303054, 76960823, -41), F64Lit(0, 61677051, 107971919, -53)>>  \* cos(2154.727451989918) = 0.9190596908994538
}

LnTable == {
    <<F64Lit(0, 181252, 41638287, -49), F64Lit(1, 26353589, 35788427, -50)>>,  \* ln(0.0432139182637723) = -3.1415926535897922
    <<F64Lit(0, 45313, 10418469, -47), F64Lit(1, 52707178, 68282637, -51)>>,  \* ln(0.04321391832699106) = -3.141592652126866
    <<F64Lit(0, 22656, 72322547, -46), F64Lit(1, 52707178, 64988513, -51)>>,  \* ln(0.04321391839020805) = -3.141592650663981
    <<F64Lit(0, 90626, 91643935, -48), F64Lit(1, 26353540, 56737261, -50)>>,  \* ln(0.04321416988397786) = -3.1415868309409065
    <<F64Lit(0, 795074, 20448433, -50), F64Lit(1, 9882595, 130861173, -49)>>,  \* ln(0.09478022484215476) = -2.3561944901923457
    <<F64Lit(0, 1743820, 37206847, -50), F64Lit(1, 6588397, 42501539, -49)>>,  \* ln(0.20787957635076193) = -1.5707963267948966
    <<F64Lit(0, 30597489, 108536893, -53), F64Lit(1, 52707178, 71576855, -53)>>,  \* ln(0.4559381277659963) = -0.7853981633974482
    <<F64Lit(0, 11060225, 16611699, -51), F64Lit(1, 55924020, 117137571, -54)>>,  \* ln(0.6592407896379711) = -0.4166664248164215
    <<F64Lit(0, 0, 1, 0), Fin(0, <<>>, 0)>>,  \* ln(1.0) = 0.0
    <<F64Lit(0, 18398566, 77827669, -50), F64Lit(0, 52707178, 71576855, -53)>>,  \* ln(2.1932800507380152) = 0.7853981633974482
    <<F64Lit(0, 40968299, 118282031, -51), F64Lit(0, 29956619, 6602657, -52)>>,  \* ln(2.4419009614747647) = 0.8927768185494431
    <<F64Lit(0, 1261037, 105032859, -45), F64Lit(0, 52707178, 71576857, -52)>>,  \* ln(4.810477380965352) = 1.5707963267948968
    <<F64Lit(0, 22126472, 12569757, -48), F64Lit(0, 19765191, 127504617, -50)>>,  \* ln(10.550724074197763) = 2.356194490192345
    <<F64Lit(0, 6066158, 54802987, -45), F64Lit(0, 52707080, 113474565, -51)>>,  \* ln(23.14055789304379) = 3.1415868309409256
    <<F64Lit(0, 24264774, 123173247, -47), F64Lit(0, 52707178, 71540019, -51)>>,  \* ln(23.140692632400707) = 3.141592653573434
    <<F64Lit(0, 24264774, 123226503, -47), F64Lit(0, 52707178, 71576841, -51)>>,  \* ln(23.140692632779114) = 3.1415926535897865
    <<F64Lit(0, 758274, 29016653, -42), F64Lit(0, 26353589, 35788429, -50)>>,  \* ln(23.14069263277929) = 3.141592653589794
    <<F64Lit(0, 60838607, 70372789, 2), F64Lit(0, 9968026, 65018959, -45)>>  \* ln(3.266247870639074e+16) = 38.025003373828866
}

SinhTable == {
    <<F64Lit(1, 18861217, 68916627, -37), Inf(1)>>,  \* sinh(-18419.157727996957) = -inf
    <<F64Lit(1, 10706145, 85842217, -45), F64Lit(1, 63518867, 2956655, 5)>>,  \* sinh(-40.840704496667314) = -2.728114565385866e+17
    <<F64Lit(1, 59295575, 114078395, -48), F64Lit(1, 14517012, 100790435, -11)>>,  \* sinh(-28.274333882308138) = -951386947646.0796
    <<F64Lit(1, 6588397, 42501539, -48), F64Lit(1, 24219461, 112816953, -48)>>,  \* sinh(-3.141592653589793) = -11.548739357257748
    <<F64Lit(1, 52707178, 68282657, -51), F64Lit(1, 48438923, 81869627, -49)>>,  \* sinh(-3.141592652126875) = -11.548739340299667
    <<F64Lit(1, 52707178, 64988459, -51), F64Lit(1, 6054865, 59372033, -46)>>,  \* sinh(-3.141592650663957) = -11.548739323341593
    <<F64Lit(1, 19765191, 127504617, -50), F64Lit(1, 1370481, 63380663, -45)>>,  \* sinh(-2.356194490192345) = -5.227971924677803
    <<F64Lit(1, 6588397, 42501539, -49), F64Lit(1, 1206543, 53538497, -46)>>,  \* sinh(-1.5707963267948966) = -2.3012989023072947
    <<F64Lit(1, 6588397, 42501539, -50), F64Lit(1, 29147760, 94966683, -52)>>,  \* sinh(-0.7853981633974483) = -0.8686709614860095
    <<F64Lit(0, 6588397, 42501539, -50), F64Lit(0, 29147760, 94966683, -52)>>,  \* sinh(0.7853981633974483) = 0.8686709614860095
    <<F64Lit(0, 29956619, 6602657, -52), F64Lit(0, 34097744, 55642641, -52)>>,  \* sinh(0.8927768185494431) = 1.0161919717362518
    <<F64Lit(0, 6588397, 42501539, -49), F64Lit(0, 1206543, 53538497, -46)>>,  \* sinh(1.5707963267948966) = 2.3012989023072947
    <<F64Lit(0, 19765191, 127504617, -50), F64Lit(0, 1370481, 63380663, -45)>>,  \* sinh(2.356194490192345) = 5.227971924677803
    <<F64Lit(0, 52707178, 71540011, -51), F64Lit(0, 24219461, 112763565, -48)>>,  \* sinh(3.1415926535734306) = 11.548739357068076
    <<F64Lit(0, 52707178, 71576843, -51), F64Lit(0, 48438923, 91416139, -49)>>,  \* sinh(3.1415926535897873) = 11.548739357257679
    <<F64Lit(0, 6588397, 42501539, -48), F64Lit(0, 24219461, 112816953, -48)>>  \* sinh(3.141592653589793) = 11.548739357257748
}

AtanTable == {
    <<F64Lit(1, 63518867, 2956655, 5), F64Lit(1, 6588397, 42501539, -49)>>,  \* atan(-2.728114565385866e+17) = -1.5707963267948966
    <<F64Lit(1, 14517012, 100790435, -11), F64Lit(1, 52707178, 71572123, -52)>>,  \* atan(-951386947646.0796) = -1.5707963267938456
    <<F64Lit(1, 24219461, 112816953, -48), F64Lit(1, 6226118, 12872791, -49)>>,  \* atan(-11.548739357257748) = -1.4844222297453324
    <<F64Lit(1, 48438923, 81869627, -49), F64Lit(1, 3113059, 6400873, -48)>>,  \* atan(-11.548739340299667) = -1.4844222296191312
    <<F64Lit(1, 6054865, 59372033, -46), F64Lit(1, 49808944, 101845609, -52)>>,  \* atan(-11.548739323341593) = -1.4844222294929301
    <<F64Lit(1, 1370481, 63380663, -45), F64Lit(1, 23182764, 111574041, -51)>>,  \* atan(-5.227971924677803) = -1.3818004626805416
    <<F64Lit(1, 1206543, 53538497, -46), F64Lit(1, 38952514, 49222495, -52)>>,  \* atan(-2.3012989023072947) = -1.1608753909688045
    <<F64Lit(1, 29147760, 94966683, -52), F64Lit(1, 11999637, 107248509, -51)>>,  \* atan(-0.8686709614860095) = -0.7152341484465397
    <<F64Lit(0, 29147760, 94966683, -52), F64Lit(0, 11999637, 107248509, -51)>>,  \* atan(0.8686709614860095) = 0.7152341484465397
    <<F64Lit(0, 34097744, 55642641, -52), F64Lit(0, 53246116, 5009451, -53)>>,  \* atan(1.0161919717362518) = 0.7934289580184716
    <<F64Lit(0, 1206543, 53538497, -46), F64Lit(0, 38952514, 49222495, -52)>>,  \* atan(2.3012989023072947) = 1.1608753909688045
    <<F64Lit(0, 1370481, 63380663, -45), F64Lit(0, 23182764, 111574041, -51)>>,  \* atan(5.227971924677803) = 1.3818004626805416
    <<F64Lit(0, 24219461, 112763565, -48), F64Lit(0, 49808944, 102975971, -52)>>,  \* atan(11.548739357068076) = 1.484422229743921
    <<F64Lit(0, 48438923, 91416139, -49), F64Lit(0, 49808944, 102982325, -52)>>,  \* atan(11.548739357257679) = 1.4844222297453318
    <<F64Lit(0, 24219461, 112816953, -48), F64Lit(0, 6226118, 12872791, -49)>>  \* atan(11.548739357257748) = 1.4844222297453324
}

Tabulated(table) == {p[1] : p \in table}

LibmAt(table, v) == (CHOOSE p \in table : p[1] = v)[2]

tan(v) ==
    IF v.k # "fin" THEN NaN
    ELSE IF IsZero(v) THEN v
    ELSE LibmAt(TanTable, v)

cos(v) ==
    IF v.k # "fin" THEN NaN
    ELSE IF IsZero(v) THEN F64One
    ELSE LibmAt(CosTable, v)

ln(v) ==
    IF v.k = "nan" THEN NaN
    ELSE IF IsZero(v) THEN Inf(1)
    ELSE IF v.s = 1 THEN NaN
    ELSE IF v.k = "inf" THEN v
    ELSE IF v = F64One THEN Fin(0, Zero, 0)
    ELSE LibmAt(LnTable, v)

sinh(v) ==
    IF v.k # "fin" \/ IsZero(v) THEN v
    ELSE LibmAt(SinhTable, v)

atan(v) ==
    IF v.k = "nan" \/ IsZero(v) THEN v
    ELSE IF v.k = "inf" THEN [F64Div(PI, F64Two) EXCEPT !.s = v.s]
    ELSE LibmAt(AtanTable, v)

(***************************************************************************)
(* lib.rs:35-40                                                            *)
(***************************************************************************)
\* PI * (1 - 2 * y / z), the argument of sinh on line 38.
SinhArg(y, zoom) ==
    LET z == Pow2(zoom)
    IN  F64Mul(PI, F64Sub(F64One, F64Div(F64Mul(F64Two, U32AsF64(y)), z)))

\* tile2lonlat without the `- 180`: what C4 rules out.
tile2lonlat_unshifted(x, y, zoom) ==
    LET z == Pow2(zoom)
        lon == F64Mul(F64Div(U32AsF64(x), z), F64OfNat(360))
        lat == to_degrees(atan(sinh(SinhArg(y, zoom))))
    IN  <<lon, lat>>

tile2lonlat(x, y, zoom) ==
    LET z == Pow2(zoom)
        lon == F64Sub(F64Mul(F64Div(U32AsF64(x), z), F64OfNat(360)), F64OfNat(180))
        lat == to_degrees(atan(sinh(SinhArg(y, zoom))))
    IN  <<lon, lat>>

(***************************************************************************)
(* The inputs of the model.                                                *)
(***************************************************************************)
\* Bounds of the model.
MaxZoom == 33
MaxDepth == 2

\* zoom: u8 (lib.rs:20, 35)
U8Max == 255

Pow2Big(k) == Shl(One, k)

F64Zero == Fin(0, Zero, 0)

\* The coordinates a session may start from.
Coords == {
    <<F64Zero, F64Zero>>,                                                              \* (0, 0)
    <<F64Lit(0, 0, 1575, -7), F64Lit(0, 2979275, 16305681, -43)>>,                     \* (12.3046875, 45.460130637921)
    <<F64Lit(0, 63209875, 129922761, -36), F64Lit(0, 63209875, 129922761, -36)>>,      \* (123456.789, 123456.789)
    <<F64Lit(1, 0, 45, 2), F64Lit(0, 44591271, 15676631, -46)>>,                       \* (-180, 85.0511)
    <<F64Lit(0, 0, 45, 2), F64Lit(1, 44591271, 15676631, -46)>>,                       \* (180, -85.0511)
    <<F64Lit(0, 47185919, 134217727, -45), F64Lit(0, 34872104, 39083965, -46)>>,       \* (180 - 2^-45, 66.51326044311186)
    <<F64Lit(0, 23592959, 134217727, -44), F64Lit(0, 44591271, 15676631, -46)>>,       \* (180 - 2^-44, 85.0511)
    <<F64Lit(1, 0, 25, 3), F64Zero>>,                                                  \* (-200, 0)
    <<NaN, F64Lit(0, 2979275, 16305681, -43)>>,                                        \* (NaN, 45.460130637921)
    <<Inf(0), F64Lit(0, 0, 45, 1)>>,                                                   \* (inf, 90)
    <<F64Lit(0, 0, 179, 0), F64Lit(1, 0, 45, 1)>>,                                     \* (179, -90)
    <<F64Lit(1, 47185920, 1, -45), F64Lit(1, 44591271, 15676631, -46)>>,               \* (-180 - 2^-45, -85.0511)
    <<F64Lit(1, 0, 45, 1), F64Lit(0, 34872104, 39083965, -46)>>,                       \* (-90, 66.51326044311186)
    <<F64Zero, NaN>>,                                                                  \* (0, NaN)
    <<F64Lit(0, 0, 45, 1), F64Lit(1, 44591271, 15676631, -46)>>,                       \* (90, -85.0511)
    <<F64Lit(1, 0, 45, 2), F64Zero>>                                                   \* (-180, 0)
}

\* The zoom levels a session may project at first; Deepen reaches the others.
ProjectZooms == {0, 1, 13, MaxZoom - 3, MaxZoom - 2, MaxZoom - 1, U8Max - 1, U8Max}

\* The tiles, with their zoom level, a session may start from: the whole grid
\* of the first levels, the tiles of the crate's tests, and tiles at the edge
\* of u32.
GridTiles(z) ==
    {<<BigOfInt(x), BigOfInt(y), z>> : x \in 0..(2^z - 1), y \in 0..(2^z - 1)}

PickTiles ==
    GridTiles(0) \cup GridTiles(1) \cup GridTiles(2) \cup
    { <<BigOfInt(4376), BigOfInt(2932), 13>>,
      <<BigOfInt(4376), BigOfInt(2932), 0>>,
      <<BigOfInt(5), BigOfInt(7), 3>>,
      <<BigOfInt(1), BigOfInt(1), 3>>,
      <<BigSub(Pow2Big(31), One), BigSub(Pow2Big(31), One), 31>>,
      <<Pow2Big(31), Zero, U32Bits>>,
      <<Zero, Pow2Big(31), U32Bits>>,
      <<U32Max, U32Max, U32Bits>>,
      <<One, Zero, 50>>,
      <<BigOfInt(5), BigOfInt(2932), 50>> }

\* The tile rows <<y, zoom>> at which sinh and atan are tabulated.
Rows ==
    {<<r[2], r[3]>> : r \in GridTiles(0) \cup GridTiles(1) \cup GridTiles(2) \cup GridTiles(3)}
    \cup {<<t[2], t[3]>> : t \in PickTiles}

(***************************************************************************)
(* lib.rs:20-26                                                            *)
(***************************************************************************)
\* The x fraction over 180 degrees instead of 360: what C5 rules out.
lonlat2tile_xf_half_turn(lon, zoom) ==
    LET z == Pow2(zoom)
    IN  F64Mul(F64Div(F64Add(lon, F64OfNat(180)), F64OfNat(180)), z)

\* (lon + 180) / 360 * z, the value that line 23 casts.
lonlat2tile_xf(lon, zoom) ==
    LET z == Pow2(zoom)
    IN  F64Mul(F64Div(F64Add(lon, F64OfNat(180)), F64OfNat(360)), z)

\* The x index as the magnitude of the value, sign dropped: what C8 rules out.
lonlat2tile_x_magnitude(lon, zoom) ==
    LET z == Pow2(zoom)
        v == F64Mul(F64Div(F64Add(lon, F64OfNat(180)), F64OfNat(360)), z)
    IN  F64AsU32(IF v.k = "nan" THEN v ELSE [v EXCEPT !.s = 0])

lonlat2tile_x(lon, zoom) == F64AsU32(lonlat2tile_xf(lon, zoom))

\* (1 - ln(tan(lat_rad) + 1 / cos(lat_rad)) / PI) / 2, the value that line 24
\* scales by z and casts.
MercatorY(lat) ==
    LET lat_rad == to_radians(lat)
    IN  F64Div(F64Sub(F64One,
                      F64Div(ln(F64Add(tan(lat_rad), F64Div(F64One, cos(lat_rad)))),
                             PI)),
               F64Two)

\* (1 - ln(..) / PI) / 2 * z, the value that line 24 casts.
lonlat2tile_yf(lat, zoom) ==
    LET z == Pow2(zoom)
    IN  F64Mul(MercatorY(lat), z)

lonlat2tile_y(lat, zoom) == F64AsU32(lonlat2tile_yf(lat, zoom))

lonlat2tile(lon, lat, zoom) == <<lonlat2tile_x(lon, zoom), lonlat2tile_y(lat, zoom)>>

(***************************************************************************)
(* The caller.  The crate keeps no state: the state is what a caller holds *)
(* between calls, and every action is one call (Pick and Project start a   *)
(* session from inputs of the caller's choice).                            *)
(***************************************************************************)
VARIABLES
    overflow_checks,  \* whether the build checks integer overflow (debug) or not
    op,               \* the last call
    at_zoom,          \* the zoom level the caller is at
    tile,             \* the tile <<x, y>> the caller holds
    coord,            \* the coordinate <<lon, lat>> the caller holds
    prev,             \* the tile and zoom level the last call started from
    kids,             \* the four tiles of the last zoom_in
    trail,            \* the tiles zoomed in from and not yet returned to; their
                      \* places are kept, empty, once a product of zoom_in has
                      \* wrapped (the tiles returned are not tiles of theirs)
    expect,           \* the tile a zoom_out is to return to, if any
    panicked          \* the last call panicked: the process is gone

vars == <<overflow_checks, op, at_zoom, tile, coord, prev, kids, trail, expect, panicked>>

Init ==
    /\ overflow_checks \in BOOLEAN
    /\ op = "start"
    /\ at_zoom = 0
    /\ tile = <<Zero, Zero>>
    /\ coord = <<F64Zero, F64Zero>>
    /\ prev = [x |-> Zero, y |-> Zero, zoom |-> 0]
    /\ kids = <<>>
    /\ trail = <<>>
    /\ expect = <<>>
    /\ panicked = FALSE

Here == [x |-> tile[1], y |-> tile[2], zoom |-> at_zoom]

\* The caller takes a tile of its choice.
Pick(t) ==
    /\ op = "start"
    /\ op' = "pick"
    /\ tile' = <<t[1], t[2]>>
    /\ at_zoom' = t[3]
    /\ prev' = [x |-> t[1], y |-> t[2], zoom |-> t[3]]
    /\ UNCHANGED <<overflow_checks, coord, kids, trail, expect, panicked>>

\* lonlat2tile(lon, lat, z) on a coordinate of the caller's choice.
Project(c, z) ==
    /\ op = "start"
    /\ op' = "lonlat2tile"
    /\ coord' = c
    /\ at_zoom' = z
    /\ tile' = lonlat2tile(c[1], c[2], z)
    /\ prev' = [x |-> Zero, y |-> Zero, zoom |-> z]
    /\ UNCHANGED <<overflow_checks, kids, trail, expect, panicked>>

\* lonlat2tile again on the same coordinate, one zoom level further in.
Deepen ==
    /\ op \in {"lonlat2tile", "deepen"}
    /\ at_zoom < U8Max
    /\ at_zoom < MaxZoom \/ at_zoom = U8Max - 1
    /\ op' = "deepen"
    /\ prev' = Here
    /\ at_zoom' = at_zoom + 1
    /\ tile' = lonlat2tile(coord[1], coord[2], at_zoom + 1)
    /\ UNCHANGED <<overflow_checks, coord, kids, trail, expect, panicked>>

\* tile2lonlat(x, y, zoom) on the tile held.
Corner ==
    /\ op \in {"pick", "lonlat2tile"}
    /\ <<tile[2], at_zoom>> \in Rows
    /\ op' = "tile2lonlat"
    /\ prev' = Here
    /\ coord' = tile2lonlat(tile[1], tile[2], at_zoom)
    /\ UNCHANGED <<overflow_checks, at_zoom, tile, kids, trail, expect, panicked>>

\* lonlat2tile on the corner that tile2lonlat returned, at the same zoom.
Reproject ==
    /\ op = "tile2lonlat"
    /\ op' = "roundtrip"
    /\ tile' = lonlat2tile(coord[1], coord[2], at_zoom)
    /\ UNCHANGED <<overflow_checks, at_zoom, coord, prev, kids, trail, expect, panicked>>

\* zoom_in(x, y) on the tile held; the caller goes on with child k.
ZoomIn(k) ==
    /\ op \in {"pick", "zoom_in", "zoom_out"}
    /\ ~panicked
    /\ Len(trail) < MaxDepth
    /\ op' = "zoom_in"
    /\ prev' = Here
    /\ expect' = <<>>
    /\ LET r == zoom_in(tile[1], tile[2], overflow_checks)
       IN  IF r.panic
           THEN /\ panicked' = TRUE
                /\ UNCHANGED <<at_zoom, tile, kids, trail>>
           ELSE /\ panicked' = FALSE
                /\ kids' = r.val
                /\ tile' = r.val[k]
                /\ at_zoom' = at_zoom + 1
                /\ trail' = IF U32Overflows(Shl(tile[1], 1)) \/ U32Overflows(Shl(tile[2], 1))
                            THEN [i \in 1..(Len(trail) + 1) |-> <<>>]
                            ELSE Append(trail, tile)
    /\ UNCHANGED <<overflow_checks, coord>>

\* zoom_out(x, y) on the tile held: a picked tile, or back along the trail.
ZoomOut ==
    /\ op = "pick" \/ (op \in {"zoom_in", "zoom_out"} /\ trail # <<>>)
    /\ ~panicked
    /\ op' = "zoom_out"
    /\ prev' = Here
    /\ tile' = zoom_out(tile[1], tile[2])
    /\ at_zoom' = IF at_zoom > 0 THEN at_zoom - 1 ELSE 0
    /\ expect' = IF trail = <<>> \/ trail[Len(trail)] = <<>>
                  THEN <<>>
                  ELSE <<trail[Len(trail)]>>
    /\ trail' = IF trail = <<>> THEN <<>> ELSE SubSeq(trail, 1, Len(trail) - 1)
    /\ UNCHANGED <<overflow_checks, coord, kids, panicked>>

Next ==
    \/ \E t \in PickTiles : Pick(t)
    \/ \E c \in Coords, z \in ProjectZooms : Project(c, z)
    \/ Deepen
    \/ Corner
    \/ Reproject
    \/ \E k \in 1..4 : ZoomIn(k)
    \/ ZoomOut

Spec == Init /\ [][Next]_vars

(***************************************************************************)
(* The claims.                                                             *)
(***************************************************************************)
\* The order of f64 (NaN is below, above and equal to nothing).
F64Lt(a, b) ==
    LET d == F64Sub(a, b)
    IN  d.k # "nan" /\ ~IsZero(d) /\ d.s = 1

F64Le(a, b) == a.k # "nan" /\ b.k # "nan" /\ ~F64Lt(b, a)

\* v < 2^31: 2 * v and 2 * v + 1 are u32.
InU31(v) == BitLen(v) < U32Bits

\* t is a tile of the grid of its zoom level: 0 <= x, y <= 2^zoom - 1.
InGrid(t) == BitLen(t.x) <= t.zoom /\ BitLen(t.y) <= t.zoom

Twice(v) == BigAdd(v, v)

\* The last call was a zoom_in that returned.
Split == op = "zoom_in" /\ ~panicked

\* The four tiles the spec gives for the tile zoomed in from.
Children ==
    LET x2 == Twice(prev.x)
        y2 == Twice(prev.y)
    IN  << <<x2, y2>>, <<BigAdd(x2, One), y2>>,
           <<x2, BigAdd(y2, One)>>, <<BigAdd(x2, One), BigAdd(y2, One)>> >>

\* The longitudes and latitudes the claims speak of.
Lon180 == F64OfNat(180)
LonBelow180 == F64Lit(0, 23592959, 134217727, -44)    \* 180 - 2^-44
LonLast == F64Lit(0, 47185919, 134217727, -45)        \* 180 - 2^-45, the largest f64 below 180
LatMax == F64Lit(0, 44591271, 15676631, -46)          \* 85.0511
ValidLat(lat) == F64Le(F64Neg(LatMax), lat) /\ F64Le(lat, LatMax)

\* C1 (as amended): for every tile (x, y) with x, y < 2^31, which covers every
\* tile of a zoom level 1..31, zoom_out of each of the four tiles that
\* zoom_in(x, y) returns is (x, y).
C1_SplitMergeInverse ==
    (Split /\ InU31(prev.x) /\ InU31(prev.y)) =>
        \A n \in 1..4 : zoom_out(kids[n][1], kids[n][2]) = <<prev.x, prev.y>>

C1_Witness ==
    /\ Split
    /\ prev.zoom >= 1
    /\ prev.x = BigSub(Pow2Big(31), One)
    /\ \A n \in 1..4 : zoom_out(kids[n][1], kids[n][2]) = <<prev.x, prev.y>>

\* C1 as claimed: the same for any tile of the grid of a zoom level >= 1.  It
\* fails for the tiles of zoom level 32 with x or y >= 2^31.
C1_AsClaimed ==
    (op = "zoom_in" /\ prev.zoom >= 1 /\ InGrid(prev)) =>
        /\ ~panicked
        /\ \A n \in 1..4 : zoom_out(kids[n][1], kids[n][2]) = <<prev.x, prev.y>>

\* C2 as claimed: no call aborts.  zoom_in does, in a build with overflow
\* checks, when 2 * x or 2 * y leaves u32.
C2_NeverAborts == ~panicked

\* C3 (as amended): for all x, y < 2^31, zoom_in(x, y) returns exactly
\* ((2x, 2y), (2x+1, 2y), (2x, 2y+1), (2x+1, 2y+1)), in this order.
C3_SplitOrdering ==
    (Split /\ InU31(prev.x) /\ InU31(prev.y)) => kids = Children

C3_Witness ==
    /\ Split
    /\ prev.x = One /\ prev.y = One
    /\ kids = << <<BigOfInt(2), BigOfInt(2)>>, <<BigOfInt(3), BigOfInt(2)>>,
                 <<BigOfInt(2), BigOfInt(3)>>, <<BigOfInt(3), BigOfInt(3)>> >>

\* C3 as claimed: the same for every tile of the grid of its zoom level.
C3_AsClaimed ==
    (op = "zoom_in" /\ InGrid(prev)) => (~panicked /\ kids = Children)

\* C4 (as amended): for every tile (x, y) of the grid of a zoom level z <= 32,
\* lonlat2tile(tile2lonlat(x, y, z), z) is (x, y) or (x, y - 1): x comes back
\* exactly, y comes back as y or as the row above.
C4_RoundTrip ==
    (op = "roundtrip" /\ InGrid(prev) /\ prev.zoom <= U32Bits) =>
        /\ tile[1] = prev.x
        /\ \/ tile[2] = prev.y
           \/ prev.y # Zero /\ tile[2] = BigSub(prev.y, One)

C4_Witness ==
    /\ op = "roundtrip"
    /\ prev = [x |-> Zero, y |-> One, zoom |-> 2]
    /\ tile = <<Zero, Zero>>

\* C4 as claimed: for every tile of the grid of zoom level z, the round trip
\* is the identity.
C4_AsClaimed ==
    (op = "roundtrip" /\ InGrid(prev)) => tile = <<prev.x, prev.y>>

\* C5 (as amended): lonlat2tile(lon, lat, 0) = (0, 0) for every lon with
\* -180 <= lon <= 180 - 2^-44, that is every f64 of [-180, 180) but the last,
\* and every lat with -85.0511 <= lat <= 85.0511.
C5_ZoomZero ==
    ( /\ op = "lonlat2tile"
      /\ at_zoom = 0
      /\ F64Le(F64Neg(Lon180), coord[1])
      /\ F64Le(coord[1], LonBelow180)
      /\ ValidLat(coord[2]) ) => tile = <<Zero, Zero>>

C5_Witness ==
    /\ op = "lonlat2tile"
    /\ at_zoom = 0
    /\ coord = <<LonBelow180, LatMax>>
    /\ tile = <<Zero, Zero>>

\* C5 as claimed: the same for every lon of the closed interval [-180, 180].
C5_AsClaimed ==
    ( /\ op = "lonlat2tile"
      /\ at_zoom = 0
      /\ F64Le(F64Neg(Lon180), coord[1])
      /\ F64Le(coord[1], Lon180)
      /\ ValidLat(coord[2]) ) => tile = <<Zero, Zero>>

\* C6: for fixed lon and lat, each component of lonlat2tile(lon, lat, z + 1)
\* is greater than or equal to that of lonlat2tile(lon, lat, z).
C6_MonotoneInZoom ==
    op = "deepen" => (BigLe(prev.x, tile[1]) /\ BigLe(prev.y, tile[2]))

C6_Witness ==
    /\ op = "deepen"
    /\ tile = <<BigOfInt(4376), BigOfInt(2932)>>
    /\ BigLt(prev.x, tile[1])
    /\ BigLt(prev.y, tile[2])

\* C7: zoom_out(x, y) is (x div 2, y div 2), rounded down, for every x and y:
\* 2 * (x div 2) <= x <= 2 * (x div 2) + 1; zoom_out(5, 7) = (2, 3);
\* zoom_out(0, 0) = (0, 0), and the call on a tile of zoom level 0 returns.
C7_ZoomOutHalves ==
    op = "zoom_out" =>
        /\ ~panicked
        /\ BigLe(Twice(tile[1]), prev.x) /\ BigLe(prev.x, BigAdd(Twice(tile[1]), One))
        /\ BigLe(Twice(tile[2]), prev.y) /\ BigLe(prev.y, BigAdd(Twice(tile[2]), One))
        /\ (prev.x = BigOfInt(5) /\ prev.y = BigOfInt(7)) =>
               tile = <<BigOfInt(2), BigOfInt(3)>>
        /\ (prev.x = Zero /\ prev.y = Zero) => tile = <<Zero, Zero>>

C7_Witness ==
    /\ op = "zoom_out"
    /\ prev = [x |-> Zero, y |-> Zero, zoom |-> 0]
    /\ tile = <<Zero, Zero>>
    /\ ~panicked

Around(v) ==
    {Twice(v), BigAdd(Twice(v), One), BigAdd(Twice(v), BigOfInt(2)), v, Zero, U32Max}
    \cup (IF v = Zero THEN {} ELSE {BigSub(Twice(v), One)})

Candidates ==
    {<<a, b>> : a \in Around(prev.x), b \in Around(prev.y)}
    \cup {<<t[1], t[2]>> : t \in PickTiles}

====
